---------------------------- MODULE Spec2Model ----------------------------
(***************************************************************************)
(* A model of the two attribute macros of espresso-macros:                 *)
(*   generic_tests (src/src/generic_tests.rs) and                          *)
(*   ser_test      (src/src/ser_test.rs),                                  *)
(* dispatched from src/src/lib.rs.  Both are pure functions from           *)
(* (attribute arguments, annotated item) to a replacement token stream;    *)
(* they are modelled as operators over syn's syntax trees, and one action  *)
(* per macro applies the operator to the pending invocation.               *)
(*                                                                         *)
(* Identifiers that take part in a format!/format_ident! call are          *)
(* sequences of one-character strings, so that formatting is a real        *)
(* concatenation and two formatted names can be compared for equality.     *)
(***************************************************************************)
EXTENDS Naturals, Sequences, FiniteSets

VARIABLES
    call,     \* the macro invocation: which macro, its arguments, its input
    output    \* the macro's result; [status |-> "pending"] before expansion

vars == <<call, output>>

(***************************************************************************)
(* Bounds of the model.                                                    *)
(***************************************************************************)
MaxItems == 2      \* items in the body of a module given to generic_tests
MaxAttrs == 3      \* attributes carried by the items of one module, in total
MaxArgs == 3       \* arguments in one #[ser_test(...)] attribute

(***************************************************************************)
(* Generic helpers.                                                        *)
(***************************************************************************)
Last(s) == s[Len(s)]

RECURSIVE Flatten(_)
Flatten(ss) == IF ss = <<>> THEN <<>> ELSE Head(ss) \o Flatten(Tail(ss))

(***************************************************************************)
(*                       generic_tests.rs                                  *)
(***************************************************************************)

\* An attribute is its path (a sequence of segments); #[async_std::test]
\* is <<"async_std", "test">>.
Attr(path) == [path |-> path]

\* Fault: the first path segment is looked at instead of the last.
is_test_attr_first(attr) ==
    Head(attr.path) \in {"test", "ignore", "bench", "should_panic"}

\* is_test_attr: the last path segment is one of the four test markers.
is_test_attr(attr) ==
    Last(attr.path) \in {"test", "ignore", "bench", "should_panic"}

is_other_attr(attr) == ~is_test_attr(attr)

\* take_test_attrs: partition f.attrs; the function keeps the rest.
\* The result is the pair <<test_attrs, f with attrs = other_attrs>>.
take_test_attrs(f) ==
    <<SelectSeq(f.attrs, is_test_attr),
      [f EXCEPT !.attrs = SelectSeq(f.attrs, is_other_attr)]>>

\* format_ident! formats an identifier argument without the r# of a raw
\* identifier (quote's IdentFragment for Ident).
unraw(name) ==
    IF Len(name) >= 2 /\ name[1] = "r" /\ name[2] = "#"
    THEN SubSeq(name, 3, Len(name))
    ELSE name

\* format_ident!("instantiate_{}", name)
instantiate_prefix ==
    <<"i","n","s","t","a","n","t","i","a","t","e","_">>

macro_name(name) == instantiate_prefix \o unraw(name)

\* Fault: the generics of the signature are not cleared.
test_sig_generic(f) == f.sig

\* test_sig = f.sig.clone(); test_sig.generics = Default::default()

test_sig(f) == [f.sig EXCEPT !.generics = <<>>]

\* quote!(#name::#test_name::<$($t),*>()), with .await for an async fn
call_expr(name, sig) ==
    [path |-> <<name, sig.ident>>, turbofish |-> "$($t),*", await |-> sig.asyncness]

\* The closure applied to every item of the module (lines 31-60): the pair
\* <<item left in the module, tokens appended to macro_body>>.
transform_item(name, item) ==
    IF item.kind = "Fn"
    THEN LET p == take_test_attrs(item)
             test_attrs == p[1]
             f == p[2]
         IN  IF test_attrs # <<>>
             THEN LET sig == test_sig(f)
                  IN  <<f, <<[attrs |-> test_attrs,
                              sig   |-> sig,
                              call  |-> call_expr(name, sig)]>> >>
             ELSE <<f, <<>> >>
    ELSE <<item, <<>> >>

\* The macro_rules! item pushed after the transformed items (lines 63-73).
macro_item(name, macro_body) ==
    [kind    |-> "Macro",
     attrs   |-> <<Attr(<<"macro_export">>)>>,
     ident   |-> macro_name(name),
     matcher |-> "$($t:ty),*",
     body    |-> macro_body]

\* Fault: the re-declarations are emitted in reverse order.
map_content_rev(name, items) ==
    LET n == Len(items)
        t == [k \in 1..n |-> transform_item(name, items[k])]
    IN  [k \in 1..n |-> t[k][1]]
          \o <<macro_item(name, Flatten([k \in 1..n |-> t[n + 1 - k][2]]))>>

\* Fault: no macro is pushed when there is nothing to re-declare.
map_content_skip_empty(name, items) ==
    LET n == Len(items)
        t == [k \in 1..n |-> transform_item(name, items[k])]
        body == Flatten([k \in 1..n |-> t[k][2]])
    IN  IF body = <<>>
        THEN [k \in 1..n |-> t[k][1]]
        ELSE [k \in 1..n |-> t[k][1]] \o <<macro_item(name, body)>>

\* The closure of test_mod.content.map (lines 16-76).
map_content(name, items) ==
    LET n == Len(items)
        t == [k \in 1..n |-> transform_item(name, items[k])]
    IN  [k \in 1..n |-> t[k][1]]
          \o <<macro_item(name, Flatten([k \in 1..n |-> t[k][2]]))>>

\* generic_tests(_args, input).  input.parsed is FALSE when the token stream
\* is not an ItemMod: parse_macro_input! then returns a compile error.
\* A module declared without a body (mod m;) has content.some = FALSE.
generic_tests(args, input) ==
    IF ~input.parsed
    THEN [status |-> "compile_error"]
    ELSE LET test_mod == input.item
             name == test_mod.ident
             content ==
                 IF test_mod.content.some
                 THEN [some |-> TRUE, items |-> map_content(name, test_mod.content.items)]
                 ELSE test_mod.content
         IN  [status |-> "ok",
              attrs  |-> <<Attr(<<"macro_use">>)>>,
              module |-> [test_mod EXCEPT !.content = content]]

(***************************************************************************)
(* Inputs of generic_tests.                                                *)
(***************************************************************************)
AttrPool ==
    { Attr(<<"test">>), Attr(<<"async_std", "test">>), Attr(<<"ignore">>),
      Attr(<<"bench">>), Attr(<<"should_panic">>), Attr(<<"cfg">>) }

\* The annotated module is drawn as: the attributes of the whole module
\* (as), the kind of every item (kinds) and the number of attributes every
\* item carries (sizes); item k carries the next sizes[k] attributes of as.
ItemKinds == { "FnA", "FnB", "Struct" }

SigOf(kind) ==
    IF kind = "FnA"
    THEN [ident |-> <<"a">>, generics |-> <<"T">>, asyncness |-> FALSE]
    ELSE [ident |-> <<"b","_","1">>, generics |-> <<"T", "U">>, asyncness |-> TRUE]

RECURSIVE Sum(_)
Sum(s) == IF s = <<>> THEN 0 ELSE Head(s) + Sum(Tail(s))

Chunk(as, sizes, k) ==
    LET start == Sum(SubSeq(sizes, 1, k - 1))
    IN  SubSeq(as, start + 1, start + sizes[k])

MkItem(kind, attrs) ==
    IF kind = "Struct"
    THEN [kind |-> "Struct", attrs |-> attrs, tokens |-> "struct X;"]
    ELSE [kind |-> "Fn", attrs |-> attrs, sig |-> SigOf(kind), block |-> "body"]

MkItems(as, kinds, sizes) ==
    [k \in 1..Len(kinds) |-> MkItem(kinds[k], Chunk(as, sizes, k))]

\* Module names: a plain identifier and a raw one (mod r#mod { ... }).
ModNames == { <<"t","e","s","t","s">>, <<"r","#","m","o","d">> }

ModInput(name, content) ==
    [parsed |-> TRUE, item |-> [ident |-> name, content |-> content]]

(***************************************************************************)
(*                          ser_test.rs                                    *)
(***************************************************************************)

\* The result of a panic!: expansion aborts with the message.
Panic(msg) == [ok |-> FALSE, msg |-> msg]

None == [some |-> FALSE]
Some(v) == [some |-> TRUE, v |-> v]

\* syn::NestedMeta, as parsed from the attribute's arguments.  A type is its
\* token sequence.  syn::parse_str::<Type> and syn::parse2::<Type> are the
\* syn crate's parser, not code of this repository: a path and a string
\* literal carry, in ty, what that parser returns on them, Some(the type's
\* tokens) for Ok and None for Err.
MetaPath(p, ty) == [nm |-> "Path", path |-> p, ty |-> ty]
MetaList(p, nested) == [nm |-> "List", path |-> p, nested |-> nested]
MetaNameValue(p, v) == [nm |-> "NameValue", path |-> p, eq |-> v]
LitBool(b) == [nm |-> "Lit", lit |-> "Bool", bool |-> b]
LitStr(str, ty) == [nm |-> "Lit", lit |-> "Str", str |-> str, ty |-> ty]
LitInt(n) == [nm |-> "Lit", lit |-> "Int", int |-> n]

\* Path::get_ident: Some(the segment) for a path of one segment, else None.
get_ident(path) == IF Len(path) = 1 THEN Some(path[1]) ELSE None

\* enum Constr (lines 186-191)
ConstrDefault == [tag |-> "Default"]
ConstrRandom(id) == [tag |-> "Random", f |-> id]
ConstrArbitrary == [tag |-> "Arbitrary"]
ConstrMethod(id) == [tag |-> "Method", f |-> id]

\* p.to_token_stream() (line 196): the segments of the path, "::" between.
RECURSIVE PathTokens(_)
PathTokens(p) ==
    IF Len(p) = 1 THEN <<p[1]>> ELSE <<Head(p), "::">> \o PathTokens(Tail(p))

\* parse_type (lines 193-201): [ok, ty] or a panic.
\* Both syn::parse_str(&s.value()) and syn::parse2(p.to_token_stream()) are
\* unwrapped: an Err of the parser is a panic.
parse_type(m) ==
    IF (m.nm = "Lit" /\ m.lit = "Str") \/ m.nm = "Path"
    THEN IF m.ty.some THEN [ok |-> TRUE, ty |-> m.ty.v]
         ELSE Panic("unwrap on an Err value")
    ELSE Panic("expected type")

\* quote!(<#name<#(#params),*>>) and quote!(<#name>)
TyGeneric(name, params) == [name |-> name, params |-> Some(params)]
TyBare(name) == [name |-> name, params |-> None]

\* types.push(...) (line 93)
push(types, ty) == Append(types, ty)

\* The initial configuration (lines 16-19).
InitConfig ==
    [ok |-> TRUE, constr |-> ConstrDefault, test_ark |-> TRUE,
     test_serde |-> TRUE, types |-> <<>>]

\* random(f) and constr(f) (lines 38-49, 53-64): one identifier sub-argument.
ident_arg(nested, arity_msg, ident_msg) ==
    IF Len(nested) # 1
    THEN Panic(arity_msg)
    ELSE IF nested[1].nm = "Path" /\ get_ident(nested[1].path).some
    THEN [ok |-> TRUE, id |-> get_ident(nested[1].path).v]
    ELSE Panic(ident_msg)

\* ark(b) and serde(b) (lines 67-89): one boolean sub-argument.
bool_arg(nested, arity_msg, bool_msg) ==
    IF Len(nested) # 1
    THEN Panic(arity_msg)
    ELSE IF nested[1].nm = "Lit" /\ nested[1].lit = "Bool"
    THEN [ok |-> TRUE, value |-> nested[1].bool]
    ELSE Panic(bool_msg)

\* Fault: a later ark(true) does not undo an earlier ark(false).
set_ark_first(st, b) ==
    IF st.test_ark THEN [st EXCEPT !.test_ark = b] ELSE st

\* test_ark = b.value (line 73) and test_serde = b.value (line 85)
set_ark(st, b) == [st EXCEPT !.test_ark = b]

set_serde(st, b) == [st EXCEPT !.test_serde = b]

\* types(...) (lines 91-94): every entry through parse_type, then one push.
types_arg(st, nested, name) ==
    LET ps == [k \in 1..Len(nested) |-> parse_type(nested[k])]
        bad == { k \in 1..Len(ps) : ~ps[k].ok }
    IN  IF bad # {}
        THEN ps[CHOOSE k \in bad : \A j \in bad : k <= j]
        ELSE [st EXCEPT !.types =
                 push(st.types,
                      TyGeneric(name, [k \in 1..Len(ps) |-> ps[k].ty]))]

\* Path arguments (lines 23-33).
path_arg(st, path) ==
    LET id == get_ident(path)
    IN  IF id.some /\ id.v = "random" THEN [st EXCEPT !.constr = ConstrRandom(id.v)]
        ELSE IF id.some /\ id.v = "arbitrary" THEN [st EXCEPT !.constr = ConstrArbitrary]
        ELSE Panic("invalid argument")

\* List arguments (lines 36-97).
list_arg(st, path, nested, name) ==
    LET id == get_ident(path)
    IN  IF ~id.some THEN Panic("invalid attribute")
        ELSE CASE id.v = "random" ->
                    LET f == ident_arg(nested, "random attribute takes 1 argument",
                                       "random argument must be an identifier")
                    IN  IF f.ok THEN [st EXCEPT !.constr = ConstrRandom(f.id)] ELSE f
               [] id.v = "constr" ->
                    LET f == ident_arg(nested, "constr attribute takes 1 argument",
                                       "constr argument must be an identifier")
                    IN  IF f.ok THEN [st EXCEPT !.constr = ConstrMethod(f.id)] ELSE f
               [] id.v = "ark" ->
                    LET b == bool_arg(nested, "ark attribute takes 1 argument",
                                          "ark argument must be a boolean")
                    IN  IF b.ok THEN set_ark(st, b.value) ELSE b
               [] id.v = "serde" ->
                    LET b == bool_arg(nested, "serde attribute takes 1 argument",
                                          "serde argument must be a boolean")
                    IN  IF b.ok THEN set_serde(st, b.value) ELSE b
               [] id.v = "types" -> types_arg(st, nested, name)
               [] OTHER -> Panic("invalid attribute")

\* Fault: an argument that is neither a path nor a list is skipped.
parse_arg_lenient(st, arg, name) ==
    IF arg.nm = "Path" THEN path_arg(st, arg.path)
    ELSE IF arg.nm = "List" THEN list_arg(st, arg.path, arg.nested, name)
    ELSE st

\* One iteration of the loop over the arguments (lines 20-101).
parse_arg(st, arg, name) ==
    IF arg.nm = "Path" THEN path_arg(st, arg.path)
    ELSE IF arg.nm = "List" THEN list_arg(st, arg.path, arg.nested, name)
    ELSE Panic("invalid argument")

\* The loop: arguments left to right; a panic ends the expansion.
RECURSIVE parse_args(_, _, _)
parse_args(st, args, name) ==
    IF args = <<>> \/ ~st.ok THEN st
    ELSE parse_args(parse_arg(st, Head(args), name), Tail(args), name)

\* format!("{}", i) of a usize.
Digit(d) == <<"0","1","2","3","4","5","6","7","8","9">>[d + 1]

RECURSIVE Decimal(_)
Decimal(n) ==
    IF n < 10 THEN <<Digit(n)>> ELSE Decimal(n \div 10) \o <<Digit(n % 10)>>

\* Ident::new panics unless the string is a valid identifier; of the
\* characters the formatted names are built from, only # is not allowed.
is_valid_ident(str) == str # <<>> /\ \A k \in 1..Len(str) : str[k] # "#"

ident_new(str) ==
    IF is_valid_ident(str)
    THEN [ok |-> TRUE, id |-> str]
    ELSE [ok |-> FALSE, msg |-> "not a valid identifier"]

\* format!("ser_test_serde_round_trip_{}_{}", name, i) (line 140)
serde_prefix ==
    <<"s","e","r","_","t","e","s","t","_","s","e","r","d","e","_",
      "r","o","u","n","d","_","t","r","i","p","_">>

\* format!("ser_test_ark_serialize_round_trip_{}_{}", name, i) (line 158)
ark_prefix ==
    <<"s","e","r","_","t","e","s","t","_","a","r","k","_",
      "s","e","r","i","a","l","i","z","e","_",
      "r","o","u","n","d","_","t","r","i","p","_">>

\* Fault: the instantiation index in the name is one-based.
serde_test_name_onebased(name, i) ==
    ident_new(serde_prefix \o name \o <<"_">> \o Decimal(i + 1))

\* Ident::new(&format!(..., name, i), Span::mixed_site()) (lines 139-142).
\* Display of a raw identifier keeps its r#, which Ident::new rejects.
serde_test_name(name, i) ==
    ident_new(serde_prefix \o name \o <<"_">> \o Decimal(i))

\* Ident::new(&format!(..., name, i), Span::mixed_site()) (lines 157-160).
ark_test_name(name, i) ==
    ident_new(ark_prefix \o name \o <<"_">> \o Decimal(i))

\* The expression that constructs the instance under test (lines 114-136).
constr_expr(constr, ty) ==
    CASE constr.tag = "Default" -> [how |-> "default", ty |-> ty]
      [] constr.tag = "Arbitrary" ->
            [how |-> "arbitrary", ty |-> ty, seed |-> [k \in 1..32 |-> 42], data_len |-> 2048]
      [] constr.tag = "Random" ->
            [how |-> "random", ty |-> ty, f |-> constr.f, seed |-> [k \in 1..32 |-> 42]]
      [] constr.tag = "Method" -> [how |-> "method", ty |-> ty, f |-> constr.f]

TestAttrs == <<[path |-> <<"cfg">>, arg |-> "test"], [path |-> <<"test">>]>>

\* The tests of instantiation i (zero-based), lines 138-180.
\* Each yields [ok |-> TRUE, tests |-> ...], or the panic of Ident::new.
serde_test(cfg, name, i, ty) ==
    IF cfg.test_serde
    THEN LET test_name == serde_test_name(name, i)
         IN  IF ~test_name.ok THEN test_name
             ELSE [ok |-> TRUE,
                   tests |-> <<[kind |-> "Fn", attrs |-> TestAttrs,
                                ident |-> test_name.id,
                                obj |-> constr_expr(cfg.constr, ty),
                                ser |-> "bincode::serialize",
                                de |-> "bincode::deserialize"]>>]
    ELSE [ok |-> TRUE, tests |-> <<>>]

ark_test(cfg, name, i, ty) ==
    IF cfg.test_ark
    THEN LET test_name == ark_test_name(name, i)
         IN  IF ~test_name.ok THEN test_name
             ELSE [ok |-> TRUE,
                   tests |-> <<[kind |-> "Fn", attrs |-> TestAttrs,
                                ident |-> test_name.id,
                                obj |-> constr_expr(cfg.constr, ty),
                                ser |-> "CanonicalSerialize::serialize",
                                de |-> "CanonicalDeserialize::deserialize"]>>]
    ELSE [ok |-> TRUE, tests |-> <<>>]

\* if types.is_empty() { types.push(quote!(<#name>)) } (lines 107-111)
default_types(types, name) ==
    IF types = <<>> THEN push(types, TyBare(name)) ELSE types

\* The loop over the instantiations (lines 113-181): the serde test, then
\* the ark test, of each instantiation in turn.  The first panic ends it.
emit_tests(cfg, name) ==
    LET types == default_types(cfg.types, name)
        steps == Flatten([k \in 1..Len(types) |->
                            << serde_test(cfg, name, k - 1, types[k]),
                               ark_test(cfg, name, k - 1, types[k]) >>])
        failed == { k \in 1..Len(steps) : ~steps[k].ok }
    IN  IF failed # {}
        THEN steps[CHOOSE k \in failed : \A j \in failed : k <= j]
        ELSE [ok |-> TRUE,
              tests |-> Flatten([k \in 1..Len(steps) |-> steps[k].tests])]

\* Fault: the arguments are interpreted before the item's kind is checked.
ser_test_args_first(args, input) ==
    IF ~args.parsed \/ ~input.parsed
    THEN [status |-> "compile_error", items |-> <<>>]
    ELSE LET name == input.item.ident
             cfg == parse_args(InitConfig, args.list, name)
         IN  IF ~cfg.ok
             THEN [status |-> "panic", msg |-> cfg.msg, items |-> <<>>]
             ELSE IF input.item.kind \notin {"Struct", "Enum"}
             THEN [status |-> "panic", msg |-> "expected struct or enum", items |-> <<>>]
             ELSE LET tests == emit_tests(cfg, name)
                  IN  IF ~tests.ok
                      THEN [status |-> "panic", msg |-> tests.msg, items |-> <<>>]
                      ELSE [status |-> "ok",
                            items |-> <<input.item>> \o tests.tests]

\* ser_test(args, input).  args.parsed / input.parsed are FALSE when
\* parse_macro_input! fails (lines 7-8) and returns a compile error.
ser_test(args, input) ==
    IF ~args.parsed \/ ~input.parsed
    THEN [status |-> "compile_error", items |-> <<>>]
    ELSE IF input.item.kind \notin {"Struct", "Enum"}
    THEN [status |-> "panic", msg |-> "expected struct or enum", items |-> <<>>]
    ELSE LET name == input.item.ident
             cfg == parse_args(InitConfig, args.list, name)
         IN  IF ~cfg.ok
             THEN [status |-> "panic", msg |-> cfg.msg, items |-> <<>>]
             ELSE LET tests == emit_tests(cfg, name)
                  IN  IF ~tests.ok
                      THEN [status |-> "panic", msg |-> tests.msg, items |-> <<>>]
                      ELSE [status |-> "ok",
                            items |-> <<input.item>> \o tests.tests]

(***************************************************************************)
(* Inputs of ser_test.                                                     *)
(***************************************************************************)
\* A path of identifiers that are not keywords: syn parses its tokens as
\* the type path of the same tokens.
IdentPath(p) == MetaPath(p, Some(PathTokens(p)))

\* The entries of types(...) written as string literals, each with the type
\* syn::parse_str returns on it.
Str_VecU64 == LitStr("Vec<u64>", Some(<<"Vec", "<", "u64", ">">>))
Str_U64 == LitStr("u64", Some(<<"u64">>))
Str_OptionBool == LitStr("Option <bool>", Some(<<"Option", "<", "bool", ">">>))
Str_Tuple ==
    LitStr("(u8, &[u8])", Some(<<"(", "u8", ",", "&", "[", "u8", "]", ")">>))
Str_random == LitStr("random", Some(<<"random">>))

\* "Vec<" is no type: syn::parse_str returns Err.
Str_VecOpen == LitStr("Vec<", None)

\* The keyword fn is accepted as a Meta::Path, and is no type: syn::parse2
\* returns Err.
Path_fn == MetaPath(<<"fn">>, None)

ValidArgPool ==
    { IdentPath(<<"random">>),
      IdentPath(<<"arbitrary">>),
      MetaList(<<"random">>, <<IdentPath(<<"random_for_test">>)>>),
      MetaList(<<"constr">>, <<IdentPath(<<"new">>)>>),
      MetaList(<<"ark">>, <<LitBool(FALSE)>>),
      MetaList(<<"ark">>, <<LitBool(TRUE)>>),
      MetaList(<<"serde">>, <<LitBool(FALSE)>>),
      MetaList(<<"serde">>, <<LitBool(TRUE)>>),
      MetaList(<<"types">>, <<IdentPath(<<"u64">>), Str_VecU64>>),
      MetaList(<<"types">>, <<Str_U64, IdentPath(<<"bool">>)>>),
      MetaList(<<"types">>, <<Str_OptionBool, Str_Tuple>>) }

InvalidArgPool ==
    { IdentPath(<<"serde">>),
      IdentPath(<<"a", "random">>),
      MetaList(<<"foo">>, <<IdentPath(<<"x">>)>>),
      MetaList(<<"random">>, <<>>),
      MetaList(<<"constr">>, <<IdentPath(<<"a", "b">>)>>),
      MetaList(<<"ark">>, <<LitInt(1)>>),
      MetaList(<<"serde">>, <<LitBool(TRUE), LitBool(FALSE)>>),
      MetaList(<<"types">>, <<IdentPath(<<"u64">>), LitInt(1)>>),
      MetaNameValue(<<"ark">>, LitBool(FALSE)),
      Str_random }

\* A types(...) entry that is a string or a path, but not a type: the
\* parser's Err is unwrapped.
UnparsedArgPool ==
    { MetaList(<<"types">>, <<Str_VecOpen>>),
      MetaList(<<"types">>, <<IdentPath(<<"u64">>), Path_fn>>) }

ArgPool == ValidArgPool \cup InvalidArgPool \cup UnparsedArgPool

SerItems ==
    { [kind |-> "Struct", ident |-> <<"S","1">>, tokens |-> "struct S1;"],
      [kind |-> "Enum", ident |-> <<"E","_","1">>, tokens |-> "enum E_1 { A }"],
      [kind |-> "Struct", ident |-> <<"r","#","t","y","p","e">>,
       tokens |-> "struct r#type;"],
      [kind |-> "Fn", ident |-> <<"f">>, tokens |-> "fn f() {}"] }

(***************************************************************************)
(* The state machine.                                                      *)
(***************************************************************************)
Pending == [status |-> "pending"]

GenericTestsCall(input) ==
    [macro |-> "generic_tests", args |-> <<>>, input |-> input]

InitGenericTests ==
    /\ output = Pending
    /\ \/ call = GenericTestsCall([parsed |-> FALSE])
       \/ \E name \in ModNames :
            call = GenericTestsCall(ModInput(name, [some |-> FALSE]))
       \/ \E n \in 0..MaxItems, m \in 0..MaxAttrs :
            \E sizes \in { sz \in [1..n -> 0..m] : Sum(sz) = m } :
               \E kinds \in [1..n -> ItemKinds], as \in [1..m -> AttrPool] :
                  \E name \in ModNames :
                     call = GenericTestsCall(
                              ModInput(name, [some |-> TRUE,
                                              items |-> MkItems(as, kinds, sizes)]))

SerTestCall(args, input) ==
    [macro |-> "ser_test", args |-> args, input |-> input]

InitSerTest ==
    /\ output = Pending
    /\ \/ \E it \in SerItems :
            call = SerTestCall([parsed |-> FALSE], [parsed |-> TRUE, item |-> it])
       \/ \E n \in 0..MaxArgs : \E list \in [1..n -> ArgPool] :
            \/ call = SerTestCall([parsed |-> TRUE, list |-> list], [parsed |-> FALSE])
            \/ \E it \in SerItems :
                 call = SerTestCall([parsed |-> TRUE, list |-> list],
                                    [parsed |-> TRUE, item |-> it])

\* lib.rs generic_tests: forward to generic_tests::generic_tests.
ExpandGenericTests ==
    /\ call.macro = "generic_tests"
    /\ output = Pending
    /\ output' = generic_tests(call.args, call.input)
    /\ UNCHANGED call

\* lib.rs ser_test: forward to ser_test::ser_test.
ExpandSerTest ==
    /\ call.macro = "ser_test"
    /\ output = Pending
    /\ output' = ser_test(call.args, call.input)
    /\ UNCHANGED call

Init == InitGenericTests \/ InitSerTest

Next == ExpandGenericTests \/ ExpandSerTest

Spec == Init /\ [][Next]_vars

\* One specification per macro: the two share no state, and the properties
\* of each macro are checked on its own invocations.
SpecGenericTests == InitGenericTests /\ [][ExpandGenericTests]_vars

SpecSerTest == InitSerTest /\ [][ExpandSerTest]_vars

(***************************************************************************)
(*                Properties of generic_tests                              *)
(***************************************************************************)

\* The Test Marker Set as the specification words it.
MarkerNames == {"test", "ignore", "bench", "should_panic"}
IsMarker(a) == a.path[Len(a.path)] \in MarkerNames
IsNotMarker(a) == ~IsMarker(a)
IsMarkedFn(it) == it.kind = "Fn" /\ \E k \in 1..Len(it.attrs) : IsMarker(it.attrs[k])

\* generic_tests has expanded a module that has a body.
GTExpanded ==
    /\ call.macro = "generic_tests"
    /\ output.status = "ok"
    /\ call.input.item.content.some

InItems == call.input.item.content.items
OutItems == output.module.content.items
Macros == { k \in 1..Len(OutItems) : OutItems[k].kind = "Macro" }
MacroBody == OutItems[Len(OutItems)].body

\* The position in the macro body of the re-declaration of the marked
\* function that is item k of the module: one per marked function, in order.
RedeclIndex(k) == Cardinality({ j \in 1..k : IsMarkedFn(InItems[j]) })

Count(seq, a) == Cardinality({ k \in 1..Len(seq) : seq[k] = a })

\* C1: every function of the module keeps exactly its non-marker attributes,
\* in their original order; the re-declaration of a marked function carries
\* exactly its marker attributes, in their original order; so each attribute
\* of a marked function is in exactly one of the two places.
C1_AttrsPartitioned ==
    GTExpanded =>
        /\ Len(OutItems) > Len(InItems)
        /\ \A k \in 1..Len(InItems) :
             InItems[k].kind = "Fn" =>
               /\ OutItems[k].attrs = SelectSeq(InItems[k].attrs, IsNotMarker)
               /\ IsMarkedFn(InItems[k]) =>
                    /\ OutItems[Len(OutItems)].kind = "Macro"
                    /\ RedeclIndex(k) <= Len(MacroBody)
                    /\ MacroBody[RedeclIndex(k)].attrs
                         = SelectSeq(InItems[k].attrs, IsMarker)
                    /\ \A i \in 1..Len(InItems[k].attrs) :
                         Count(InItems[k].attrs, InItems[k].attrs[i])
                           = Count(OutItems[k].attrs, InItems[k].attrs[i])
                               + Count(MacroBody[RedeclIndex(k)].attrs,
                                       InItems[k].attrs[i])
                    /\ Len(InItems[k].attrs)
                         = Len(OutItems[k].attrs)
                             + Len(MacroBody[RedeclIndex(k)].attrs)

\* A marked function with a marker whose path has two segments, then an
\* attribute that is no marker, then another marker, expanded.
C1_Witness ==
    /\ GTExpanded
    /\ \E k \in 1..Len(InItems) :
         /\ InItems[k].kind = "Fn"
         /\ InItems[k].attrs
              = <<Attr(<<"async_std", "test">>), Attr(<<"cfg">>),
                  Attr(<<"should_panic">>)>>
         /\ OutItems[k].attrs = <<Attr(<<"cfg">>)>>
         /\ MacroBody[RedeclIndex(k)].attrs
              = <<Attr(<<"async_std", "test">>), Attr(<<"should_panic">>)>>

\* C2: one re-declaration per marked function, in declaration order; items
\* that are not marked functions stay unchanged; every item stays at its
\* position, followed by the macro.
C2_RedeclsInOrder ==
    GTExpanded =>
        LET marked == SelectSeq(InItems, IsMarkedFn)
        IN  /\ Len(OutItems) = Len(InItems) + 1
            /\ OutItems[Len(OutItems)].kind = "Macro"
            /\ Len(MacroBody) = Len(marked)
            /\ \A j \in 1..Len(marked) :
                 MacroBody[j].sig.ident = marked[j].sig.ident
            /\ \A k \in 1..Len(InItems) :
                 /\ ~IsMarkedFn(InItems[k]) => OutItems[k] = InItems[k]
                 /\ OutItems[k].kind = InItems[k].kind
                 /\ InItems[k].kind = "Fn" =>
                      /\ OutItems[k].sig = InItems[k].sig
                      /\ OutItems[k].block = InItems[k].block

\* Two marked functions of different names, in the order b_1, a.
C2_Witness ==
    /\ GTExpanded
    /\ Len(InItems) = 2
    /\ IsMarkedFn(InItems[1]) /\ IsMarkedFn(InItems[2])
    /\ InItems[1].sig.ident = <<"b","_","1">>
    /\ InItems[2].sig.ident = <<"a">>
    /\ Len(MacroBody) = 2

\* C3 as claimed: the re-declaration of a marked function has its name, no
\* generic parameters, and every attribute of the original, marker or not.
C3_AllAttrsOnRedecl ==
    GTExpanded =>
        \A k \in 1..Len(InItems) :
            IsMarkedFn(InItems[k]) =>
                /\ RedeclIndex(k) <= Len(MacroBody)
                /\ MacroBody[RedeclIndex(k)].sig.ident = InItems[k].sig.ident
                /\ MacroBody[RedeclIndex(k)].sig.generics = <<>>
                /\ \A i \in 1..Len(InItems[k].attrs) :
                     \E j \in 1..Len(MacroBody[RedeclIndex(k)].attrs) :
                        MacroBody[RedeclIndex(k)].attrs[j] = InItems[k].attrs[i]

\* C3 as amended: the re-declaration of a marked function has its name, no
\* generic parameters, the same asyncness, and of the original's attributes
\* the markers and only the markers.
C3_NameNoGenericsMarkersOnly ==
    GTExpanded =>
        \A k \in 1..Len(InItems) :
            IsMarkedFn(InItems[k]) =>
                /\ RedeclIndex(k) <= Len(MacroBody)
                /\ MacroBody[RedeclIndex(k)].sig.ident = InItems[k].sig.ident
                /\ MacroBody[RedeclIndex(k)].sig.generics = <<>>
                /\ MacroBody[RedeclIndex(k)].sig.asyncness = InItems[k].sig.asyncness
                /\ \A j \in 1..Len(MacroBody[RedeclIndex(k)].attrs) :
                     IsMarker(MacroBody[RedeclIndex(k)].attrs[j])
                /\ \A i \in 1..Len(InItems[k].attrs) :
                     IsMarker(InItems[k].attrs[i]) =>
                        Count(MacroBody[RedeclIndex(k)].attrs, InItems[k].attrs[i])
                          = Count(InItems[k].attrs, InItems[k].attrs[i])

\* A generic function with a marker and a non-marker attribute, expanded.
C3_Witness ==
    /\ GTExpanded
    /\ \E k \in 1..Len(InItems) :
         /\ InItems[k].kind = "Fn"
         /\ InItems[k].attrs = <<Attr(<<"cfg">>), Attr(<<"test">>)>>
         /\ InItems[k].sig.generics # <<>>
         /\ MacroBody[RedeclIndex(k)].attrs = <<Attr(<<"test">>)>>

\* The module has no marked function (a module without a body has none).
NoMarkedFn ==
    call.input.item.content.some =>
        \A k \in 1..Len(InItems) : ~IsMarkedFn(InItems[k])

\* The module's name: its identifier, less the r# that marks a raw identifier.
ModuleName ==
    LET id == call.input.item.ident
    IN  IF Len(id) >= 2 /\ id[1] = "r" /\ id[2] = "#"
        THEN SubSeq(id, 3, Len(id))
        ELSE id

\* The output module ends with the one exported macro instantiate_<module>,
\* whose expansion is empty.
EndsWithEmptyMacro ==
    /\ output.module.content.some
    /\ Len(OutItems) = Len(call.input.item.content.items) + 1
    /\ Macros = { Len(OutItems) }
    /\ OutItems[Len(OutItems)].ident
         = <<"i","n","s","t","a","n","t","i","a","t","e","_">>
              \o ModuleName
    /\ OutItems[Len(OutItems)].attrs = <<Attr(<<"macro_export">>)>>
    /\ OutItems[Len(OutItems)].body = <<>>

\* C4 as claimed: every module generic_tests accepts that has no marked
\* function gets the empty macro appended.
C4_EveryModuleGetsMacro ==
    (call.macro = "generic_tests" /\ output.status = "ok" /\ NoMarkedFn)
        => EndsWithEmptyMacro

\* C4 as amended: every module with a body (an item list, possibly empty)
\* that has no marked function gets the empty macro appended after its items.
C4_ModuleWithBodyGetsMacro ==
    (GTExpanded /\ NoMarkedFn) => EndsWithEmptyMacro

\* The module r#mod with a function without markers and a struct, expanded:
\* the macro is instantiate_mod.
C4_Witness ==
    /\ GTExpanded
    /\ NoMarkedFn
    /\ Len(InItems) = 2
    /\ InItems[1].kind = "Fn" /\ InItems[1].attrs = <<Attr(<<"cfg">>)>>
    /\ InItems[2].kind = "Struct"
    /\ Len(OutItems) = 3
    /\ call.input.item.ident = <<"r","#","m","o","d">>
    /\ OutItems[3].ident = <<"i","n","s","t","a","n","t","i","a","t","e","_","m","o","d">>

(***************************************************************************)
(*                   Properties of ser_test                                *)
(***************************************************************************)

\* The argument grammar as the specification words it.
ArgName(a) == IF Len(a.path) = 1 THEN a.path[1] ELSE "(not an identifier)"
IsBarePath(a, n) == a.nm = "Path" /\ a.path = <<n>>
IsListNamed(a, n) == a.nm = "List" /\ a.path = <<n>>
IsIdent(m) == m.nm = "Path" /\ Len(m.path) = 1
IsBool(m) == m.nm = "Lit" /\ m.lit = "Bool"
IsTypeEntry(m) == m.nm = "Path" \/ (m.nm = "Lit" /\ m.lit = "Str")
IsTypesArg(a) == IsListNamed(a, "types")
IsArkArg(a) == IsListNamed(a, "ark") /\ Len(a.nested) = 1 /\ IsBool(a.nested[1])
IsSerdeArg(a) == IsListNamed(a, "serde") /\ Len(a.nested) = 1 /\ IsBool(a.nested[1])
IsConstrArg(a) ==
    \/ IsBarePath(a, "random") \/ IsBarePath(a, "arbitrary")
    \/ /\ IsListNamed(a, "random") \/ IsListNamed(a, "constr")
       /\ Len(a.nested) = 1 /\ IsIdent(a.nested[1])

\* A types(...) entry that denotes a type: a bare type path, or a string
\* that parses as a type expression.
IsType(m) == IsTypeEntry(m) /\ m.ty.some

ValidArg(a) ==
    \/ IsConstrArg(a) \/ IsArkArg(a) \/ IsSerdeArg(a)
    \/ /\ IsTypesArg(a)
       /\ \A k \in 1..Len(a.nested) :
            IsType(a.nested[k])

\* The invalid arguments listed by C9.
InvalidArg(a) ==
    \/ a.nm = "Path" /\ a.path \notin {<<"random">>, <<"arbitrary">>}
    \/ a.nm = "List"
         /\ ArgName(a) \notin {"random", "constr", "ark", "serde", "types"}
    \/ a.nm = "List" /\ ArgName(a) \in {"random", "constr", "ark", "serde"}
         /\ Len(a.nested) # 1
    \/ a.nm = "List" /\ ArgName(a) \in {"random", "constr"}
         /\ Len(a.nested) = 1 /\ ~IsIdent(a.nested[1])
    \/ a.nm = "List" /\ ArgName(a) \in {"ark", "serde"}
         /\ Len(a.nested) = 1 /\ ~IsBool(a.nested[1])
    \/ IsTypesArg(a) /\ \E k \in 1..Len(a.nested) : ~IsTypeEntry(a.nested[k])
    \/ a.nm \notin {"Path", "List"}

\* ser_test has been given parsed arguments and a parsed item.
STParsed ==
    /\ call.macro = "ser_test"
    /\ call.args.parsed
    /\ call.input.parsed

Args == call.args.list
TypeName == call.input.item.ident
IsStructOrEnum == call.input.item.kind \in {"Struct", "Enum"}

\* A parsed invocation on a struct or enum whose arguments are all valid.
STValid ==
    /\ STParsed
    /\ IsStructOrEnum
    /\ \A k \in 1..Len(Args) : ValidArg(Args[k])

STExpanded == output.status # "pending"

\* The value the last argument of a kind gives, or the default.
MaxOf(S) == IF S = {} THEN 0 ELSE CHOOSE k \in S : \A j \in S : j <= k
LastArk == MaxOf({ k \in 1..Len(Args) : IsArkArg(Args[k]) })
LastSerde == MaxOf({ k \in 1..Len(Args) : IsSerdeArg(Args[k]) })
LastConstr == MaxOf({ k \in 1..Len(Args) : IsConstrArg(Args[k]) })

ExpectedArk ==
    IF LastArk = 0 THEN TRUE ELSE Args[LastArk].nested[1].bool

ExpectedSerde ==
    IF LastSerde = 0 THEN TRUE ELSE Args[LastSerde].nested[1].bool

\* The construction strategy: how the instance is made and by which function.
ExpectedHow ==
    LET k == LastConstr
    IN  IF k = 0 THEN <<"default">>
        ELSE IF IsBarePath(Args[k], "random") THEN <<"random", "random">>
        ELSE IF IsBarePath(Args[k], "arbitrary") THEN <<"arbitrary">>
        ELSE IF IsListNamed(Args[k], "random")
        THEN <<"random", Args[k].nested[1].path[1]>>
        ELSE <<"method", Args[k].nested[1].path[1]>>

HowOf(constr) ==
    CASE constr.tag = "Default" -> <<"default">>
      [] constr.tag = "Arbitrary" -> <<"arbitrary">>
      [] constr.tag = "Random" -> <<"random", constr.f>>
      [] constr.tag = "Method" -> <<"method", constr.f>>

HowOfExpr(obj) ==
    IF obj.how \in {"random", "method"} THEN <<obj.how, obj.f>> ELSE <<obj.how>>

\* The types(...) arguments, in the order written.
TypesArgs == SelectSeq(Args, IsTypesArg)

\* The type a types(...) entry denotes, as tokens.
EntryType(m) ==
    IF m.nm = "Path"
    THEN [i \in 1..(2 * Len(m.path) - 1) |->
             IF i % 2 = 1 THEN m.path[(i + 1) \div 2] ELSE "::"]
    ELSE m.ty.v

\* The instantiation the j-th types(...) argument asks for.
ExpectedType(j) ==
    [name |-> TypeName,
     params |-> [some |-> TRUE,
                 v |-> [i \in 1..Len(TypesArgs[j].nested) |->
                           EntryType(TypesArgs[j].nested[i])]]]

BareType == [name |-> TypeName, params |-> [some |-> FALSE]]

\* The annotated type is named by a raw identifier (struct r#type).
IsRawName == Len(TypeName) >= 2 /\ TypeName[1] = "r" /\ TypeName[2] = "#"

\* The synthesized tests: everything the expansion emits after the item.
Tests == IF output.items = <<>> THEN <<>> ELSE Tail(output.items)

\* The names of C8.
ClaimedName(format, i) ==
    (IF format = "serde"
     THEN <<"s","e","r","_","t","e","s","t","_",
            "s","e","r","d","e","_","r","o","u","n","d","_","t","r","i","p","_">>
     ELSE <<"s","e","r","_","t","e","s","t","_","a","r","k","_",
            "s","e","r","i","a","l","i","z","e","_",
            "r","o","u","n","d","_","t","r","i","p","_">>)
      \o TypeName \o <<"_">>
      \o <<(<<"0","1","2","3","4","5","6","7","8","9">>)[i + 1]>>

TestsNamed(format, i) ==
    { k \in 1..Len(Tests) : Tests[k].ident = ClaimedName(format, i) }

Enabled(format) == IF format = "serde" THEN ExpectedSerde ELSE ExpectedArk
Formats == {"serde", "ark"}

\* C5: with valid arguments the fold never fails (the expansion succeeds, or
\* fails only later, where a test is named); the instantiations are the
\* types(...) arguments in the order written, and every scalar setting has
\* the value of the last argument that sets it.
C5_FoldLastWins ==
    (STValid /\ STExpanded) =>
        LET cfg == parse_args(InitConfig, Args, TypeName)
        IN  /\ output.status \in {"ok", "panic"}
            /\ output.status = "panic" =>
                 /\ output.msg = "not a valid identifier"
                 /\ IsRawName
                 /\ ExpectedArk \/ ExpectedSerde
            /\ cfg.ok
            /\ Len(cfg.types) = Len(TypesArgs)
            /\ \A j \in 1..Len(TypesArgs) : cfg.types[j] = ExpectedType(j)
            /\ cfg.test_ark = ExpectedArk
            /\ cfg.test_serde = ExpectedSerde
            /\ HowOf(cfg.constr) = ExpectedHow
            /\ \A k \in 1..Len(Tests) : HowOfExpr(Tests[k].obj) = ExpectedHow

\* ark(false) then ark(true), after constr(new) overwritten by random.
C5_Witness ==
    /\ STValid /\ STExpanded
    /\ Len(Args) = 3
    /\ IsArkArg(Args[1]) /\ ~Args[1].nested[1].bool
    /\ IsListNamed(Args[2], "constr")
    /\ IsArkArg(Args[3]) /\ Args[3].nested[1].bool
    /\ Len(Tests) = 2
    /\ Tests[2].obj.how = "method"

\* C6: with N >= 1 types(...) arguments, the test of instantiation i and of
\* a format exists (once) iff the format is enabled, it is built on the i-th
\* types(...) argument, and there are no other tests.  The code does not do
\* this for a type named by a raw identifier: see C6_RawTypePanics.
C6_TestPerInstantiationAndFormat ==
    (STValid /\ STExpanded /\ Len(TypesArgs) >= 1) =>
        /\ output.status = "ok"
        /\ output.items[1] = call.input.item
        /\ \A i \in 0..(Len(TypesArgs) - 1) : \A f \in Formats :
             /\ Cardinality(TestsNamed(f, i)) = IF Enabled(f) THEN 1 ELSE 0
             /\ \A k \in TestsNamed(f, i) : Tests[k].obj.ty = ExpectedType(i + 1)
        /\ Len(Tests)
             = Len(TypesArgs) * Cardinality({ f \in Formats : Enabled(f) })

\* #[ser_test(types(..), ark(false))] struct r#type; panics, emits nothing.
C6_RawTypePanics ==
    /\ STValid /\ STExpanded
    /\ IsRawName
    /\ Len(Args) = 2
    /\ IsTypesArg(Args[1])
    /\ IsArkArg(Args[2]) /\ ~Args[2].nested[1].bool
    /\ Enabled("serde")
    /\ output.status = "panic"
    /\ output.msg = "not a valid identifier"
    /\ output.items = <<>>

\* C7: without a types(...) argument the one instantiation is the bare type,
\* at index 0; without any argument the two tests are the serde and the ark
\* round trip of the default instance.  The code does not do this for a type
\* named by a raw identifier: see C7_RawTypePanics.
C7_BareTypeByDefault ==
    (STValid /\ STExpanded /\ Len(TypesArgs) = 0) =>
        /\ output.status = "ok"
        /\ \A f \in Formats :
             Cardinality(TestsNamed(f, 0)) = IF Enabled(f) THEN 1 ELSE 0
        /\ Len(Tests) = Cardinality({ f \in Formats : Enabled(f) })
        /\ \A k \in 1..Len(Tests) : Tests[k].obj.ty = BareType
        /\ Args = <<>> =>
             /\ Len(Tests) = 2
             /\ Cardinality(TestsNamed("serde", 0)) = 1
             /\ Cardinality(TestsNamed("ark", 0)) = 1
             /\ \A k \in 1..Len(Tests) :
                  Tests[k].obj = [how |-> "default", ty |-> BareType]

\* #[ser_test] struct r#type; the expansion panics and emits nothing.
C7_RawTypePanics ==
    /\ STValid /\ STExpanded
    /\ IsRawName
    /\ Args = <<>>
    /\ output.status = "panic"
    /\ output.msg = "not a valid identifier"
    /\ output.items = <<>>

\* C8: the names of the tests of one expansion are pairwise distinct, and
\* the test of format f on the instantiation of zero-based index i, and no
\* other, is named ser_test_<f>_round_trip_<type>_<i>.
C8_NamesDistinct ==
    (STValid /\ STExpanded) =>
        /\ \A j, k \in 1..Len(Tests) : j # k => Tests[j].ident # Tests[k].ident
        /\ \A k \in 1..Len(Tests) :
             \E f \in Formats :
                \E i \in 0..(IF TypesArgs = <<>> THEN 0 ELSE Len(TypesArgs) - 1) :
                   /\ Tests[k].ident = ClaimedName(f, i)
                   /\ Tests[k].ser = IF f = "serde" THEN "bincode::serialize"
                                     ELSE "CanonicalSerialize::serialize"
                   /\ Tests[k].obj.ty = IF TypesArgs = <<>> THEN BareType
                                        ELSE ExpectedType(i + 1)
                   /\ \A j \in 1..Len(Tests) :
                        Tests[j].ident = ClaimedName(f, i) => j = k

\* Two instantiations and both formats: four tests.
C8_Witness ==
    /\ STValid /\ STExpanded
    /\ Len(TypesArgs) = 2
    /\ Len(Tests) = 4

\* C9: an invalid argument at any position makes the expansion fail and
\* emit nothing.
C9_InvalidArgFails ==
    (call.macro = "ser_test" /\ call.args.parsed /\ STExpanded
       /\ \E k \in 1..Len(Args) : InvalidArg(Args[k])) =>
        /\ output.status # "ok"
        /\ output.items = <<>>

\* Two valid arguments, then name = value, on a struct: a panic, no output.
C9_Witness ==
    /\ STParsed /\ STExpanded /\ IsStructOrEnum
    /\ Len(Args) = 3
    /\ ValidArg(Args[1]) /\ IsTypesArg(Args[1]) /\ ValidArg(Args[2])
    /\ Args[3].nm = "NameValue"
    /\ output.status = "panic"

\* C10 as stated: on an item that is neither a struct nor an enum the
\* expansion fails with the shape error for every argument token stream,
\* and emits nothing.
C10_ShapeErrorForEveryArgs ==
    (call.macro = "ser_test" /\ call.input.parsed /\ STExpanded
       /\ ~IsStructOrEnum) =>
        /\ output.status = "panic"
        /\ output.msg = "expected struct or enum"
        /\ output.items = <<>>

\* C10: on an item that is neither a struct nor an enum the expansion fails
\* with the shape error, whatever list of attribute arguments it is given,
\* valid or invalid, and emits nothing.
C10_ShapeErrorFirst ==
    (STParsed /\ STExpanded /\ ~IsStructOrEnum) =>
        /\ output.status = "panic"
        /\ output.msg = "expected struct or enum"
        /\ output.items = <<>>

\* A function annotated with an invalid argument, expanded.
C10_Witness ==
    /\ STParsed /\ STExpanded
    /\ call.input.item.kind = "Fn"
    /\ \E k \in 1..Len(Args) : InvalidArg(Args[k])
    /\ output.status = "panic"

=============================================================================
